---- MODULE Spec2Model ----
(***************************************************************************)
(* Task planner: the imperative variant (src/imperative/test.py) and the   *)
(* functional variant (src/functional_programming/concept_project.py).     *)
(* Both keep an ordered list of tasks in memory (self.tasks) and write the *)
(* whole list to one JSON file.  The model covers the task operations, the *)
(* JSON store and the GUI handlers that call them.                         *)
(***************************************************************************)
EXTENDS Integers, Sequences, FiniteSets, TLC

(* ------------------------------ bounds -------------------------------- *)
MaxLen == 3
MaxNow == 2
MaxWindows == 1
MaxCalls == 2
MaxSteps == 8
MaxStoreCalls == 4

(* ------------------------- program constants -------------------------- *)
MinPriority == 1
MaxPriority == 10

(* ------------------------------ values -------------------------------- *)
Variants == {"imp", "fun"}
Statuses == {"Pending", "Completed", "Overdue"}
GuiDescriptions == {"a"}
CoreDescriptions == {"c"}
PriorityInputs == {MinPriority - 1, MinPriority, MaxPriority, MaxPriority + 1}
SortOptions == {"All", "Priority", "Due Date"}
FilterOptions == {"All", "Pending", "Completed", "Overdue"}

\* A datetime is seconds plus microseconds; the GUI only produces midnights.
DateTime(s, u) == [sec |-> s, us |-> u]
DateInputs == {DateTime(s, 0) : s \in 1..(MaxNow + 1)}

\* what is typed into the entries of the window: a date that is never after
\* now and one that always is; a priority below, in and above the range
GuiDateInputs == {DateTime(1, 0), DateTime(MaxNow + 1, 0)}
GuiPriorityInputs == PriorityInputs

\* datetime comparison a <= b and a > b
DtLE(a, b) == a.sec < b.sec \/ (a.sec = b.sec /\ a.us <= b.us)
DtGT(a, b) == ~DtLE(a, b)

\* f"T{n}"
TId(n) == <<"T", n>>

\* Optional values: None is the empty sequence, a value v is <<v>>.
None == <<>>
Some(v) == <<v>>

Task(id, d, dd, p, s) ==
    [task_id |-> id, description |-> d, due_date |-> dd, priority |-> p, status |-> s]

\* due_date.strftime("%Y-%m-%d %H:%M:%S"): the text keeps the seconds only
strftime(dt) == [fmt |-> "%Y-%m-%d %H:%M:%S", sec |-> dt.sec]
\* datetime.strptime(text, "%Y-%m-%d %H:%M:%S")
strptime(txt) == DateTime(txt.sec, 0)

\* the JSON document: absent, text that is not JSON, or an array of dicts
AbsentFile == [kind |-> "absent", recs |-> <<>>]
InvalidFile == [kind |-> "invalid", recs |-> <<>>]
JsonFile(recs) == [kind |-> "json", recs |-> recs]

\* the keys load_tasks reads from every dict
RequiredFields == {"task_id", "description", "due_date", "priority", "status"}

\* task_dict["..."] raises KeyError for a key the dict does not have
MissingKey(d) == RequiredFields \ DOMAIN d # {}

\* what a call hands back: a value, or an exception that leaves it
Returned(v) == [raised |-> FALSE, val |-> v]
Raised == [raised |-> TRUE, val |-> <<>>]

\* what the body of a try block did: finished with a value (exc "none") or
\* raised exc, tasks being the list built until then
Finished(v) == [exc |-> "none", val |-> v]
Threw(exc, v) == [exc |-> exc, val |-> v]

\* except (json.JSONDecodeError, KeyError, FileNotFoundError)
CaughtOnLoad == {"JSONDecodeError", "KeyError", "FileNotFoundError"}

task_dict(task) ==
    [task_id |-> task.task_id, description |-> task.description,
     due_date |-> strftime(task.due_date), priority |-> task.priority,
     status |-> task.status]

\* the task built from a dict with the status left at its default
task_from_dict_pending(d) ==
    Task(d.task_id, d.description, strptime(d.due_date), d.priority, "Pending")

\* the task load_tasks builds from one dict
task_from_dict(d) ==
    Task(d.task_id, d.description, strptime(d.due_date), d.priority, d.status)

\* What one call of an operation does: the list it returns (out), the task
\* it returns (ret), the caller's list object after the call (inpAfter), the
\* file content it wrote (store, None when it did not write) and whether it
\* raised.
Effect(out, ret, inpAfter, store, raised) ==
    [out |-> out, ret |-> ret, inpAfter |-> inpAfter, store |-> store, raised |-> raised]

NoUpdates == [description |-> None, due_date |-> None, priority |-> None, status |-> None]

\* key(a) > key(b) for the two sort keys
KeyGT(sort_by, a, b) ==
    IF sort_by = "Priority" THEN a.priority > b.priority
    ELSE DtGT(a.due_date, b.due_date)

\* arr[j], arr[j + 1] = arr[j + 1], arr[j]   (1-based j)
Swap(arr, j) == [arr EXCEPT ![j] = arr[j + 1], ![j + 1] = arr[j]]

(* ======================= imperative variant =========================== *)

\* for task_dict in task_dicts: tasks.append(task)
RECURSIVE imp_read_dicts(_, _)
imp_read_dicts(task_dicts, tasks) ==
    IF task_dicts = <<>> THEN Finished(tasks)
    ELSE IF MissingKey(task_dicts[1]) THEN Threw("KeyError", tasks)
    ELSE imp_read_dicts(Tail(task_dicts), Append(tasks, task_from_dict(task_dicts[1])))

\* the try block of load_tasks: [] when the file is absent, json.load, then
\* one task per dict
imp_load_try(f) ==
    IF f.kind = "absent" THEN Finished(<<>>)
    ELSE IF f.kind = "invalid" THEN Threw("JSONDecodeError", <<>>)
    ELSE imp_read_dicts(f.recs, <<>>)

\* an except clause that hands back the tasks read before the KeyError
imp_load_except_prefix(r) ==
    IF r.exc = "none" THEN Returned(r.val)
    ELSE IF r.exc = "KeyError" THEN Returned(r.val)
    ELSE IF r.exc \in CaughtOnLoad THEN Returned(<<>>)
    ELSE Raised

\* the except clause of load_tasks: return []
imp_load_except(r) ==
    IF r.exc = "none" THEN Returned(r.val)
    ELSE IF r.exc \in CaughtOnLoad THEN Returned(<<>>)
    ELSE Raised

\* load_tasks()
imp_load_tasks(f) == imp_load_except(imp_load_try(f))

\* save_tasks(tasks): the file content written
imp_save_tasks(tasks) ==
    JsonFile([i \in 1..Len(tasks) |-> task_dict(tasks[i])])

\* validate_task with the upper priority limit off by one
imp_validate_task_lax(task, clock) ==
    IF task.priority < MinPriority \/ task.priority > MaxPriority + 1 THEN TRUE
    ELSE IF DtLE(task.due_date, clock) THEN TRUE
    ELSE FALSE

\* validate_task(task): TRUE when an error message is returned
imp_validate_task(task, clock) ==
    IF task.priority < MinPriority \/ task.priority > MaxPriority THEN TRUE
    ELSE IF DtLE(task.due_date, clock) THEN TRUE
    ELSE FALSE

\* renumber_tasks that leaves the ids as they are
imp_renumber_tasks_stale(tasks) == tasks

\* renumber_tasks(tasks): task["task_id"] = f"T{i + 1}" for every position
imp_renumber_tasks(tasks) ==
    [i \in 1..Len(tasks) |-> [tasks[i] EXCEPT !.task_id = TId(i)]]

\* add_task that puts the new task at the head of the list
imp_add_task_front(tasks, description, due_date, priority, clock) ==
    LET new_task == Task(TId(Len(tasks) + 1), description, due_date, priority, "Pending")
    IN  IF imp_validate_task(new_task, clock)
        THEN Effect(tasks, None, tasks, None, FALSE)
        ELSE LET t2 == imp_renumber_tasks(<<new_task>> \o tasks)
             IN  Effect(t2, Some(t2[1]), t2, Some(imp_save_tasks(t2)), FALSE)

\* add_task: validate; append, renumber and save in place
imp_add_task(tasks, description, due_date, priority, clock) ==
    LET new_task == Task(TId(Len(tasks) + 1), description, due_date, priority, "Pending")
    IN  IF imp_validate_task(new_task, clock)
        THEN Effect(tasks, None, tasks, None, FALSE)
        ELSE LET t2 == imp_renumber_tasks(Append(tasks, new_task))
             IN  Effect(t2, Some(t2[Len(t2)]), t2, Some(imp_save_tasks(t2)), FALSE)

\* a merge that rebuilds the task with the default status
imp_merge_reset(task, updates) ==
    [task EXCEPT !.description = IF updates.description = None THEN @ ELSE updates.description[1],
                 !.due_date = IF updates.due_date = None THEN @ ELSE updates.due_date[1],
                 !.priority = IF updates.priority = None THEN @ ELSE updates.priority[1],
                 !.status = IF updates.status = None THEN "Pending" ELSE updates.status[1]]

\* {**task, **updates}: a key of updates replaces the task's value
imp_merge(task, updates) ==
    [task EXCEPT !.description = IF updates.description = None THEN @ ELSE updates.description[1],
                 !.due_date = IF updates.due_date = None THEN @ ELSE updates.due_date[1],
                 !.priority = IF updates.priority = None THEN @ ELSE updates.priority[1],
                 !.status = IF updates.status = None THEN @ ELSE updates.status[1]]

\* update_task: the first task with the id is replaced in place and the list
\* saved; without a match nothing is written
imp_update_task(tasks, task_id, updates) ==
    LET hits == {i \in 1..Len(tasks) : tasks[i].task_id = task_id}
    IN  IF hits = {} THEN Effect(tasks, None, tasks, None, FALSE)
        ELSE LET i == CHOOSE k \in hits : \A m \in hits : k <= m
                 updated_task == imp_merge(tasks[i], updates)
                 t2 == [tasks EXCEPT ![i] = updated_task]
             IN  Effect(t2, Some(updated_task), t2, Some(imp_save_tasks(t2)), FALSE)

\* [task for task in tasks if task["task_id"] != task_id]
imp_keep(tasks, task_id) == SelectSeq(tasks, LAMBDA t : t.task_id # task_id)

\* the caller's list object after delete_task: its dicts are shared with the
\* new list, so the kept ones carry their new ids
RECURSIVE imp_delete_input_after(_, _, _)
imp_delete_input_after(tasks, task_id, kept) ==
    IF tasks = <<>> THEN <<>>
    ELSE IF tasks[1].task_id # task_id
         THEN <<[tasks[1] EXCEPT !.task_id = TId(kept + 1)]>>
              \o imp_delete_input_after(Tail(tasks), task_id, kept + 1)
         ELSE <<tasks[1]>> \o imp_delete_input_after(Tail(tasks), task_id, kept)

\* delete_task: new list of the tasks kept, renumber, save
imp_delete_task(tasks, task_id) ==
    LET t2 == imp_renumber_tasks(imp_keep(tasks, task_id))
    IN  Effect(t2, None, imp_delete_input_after(tasks, task_id, 0),
               Some(imp_save_tasks(t2)), FALSE)

\* filter_tasks with the Overdue branch keeping every task
imp_filter_tasks_loose(tasks, filter_by) ==
    Effect(IF filter_by = "Pending" THEN SelectSeq(tasks, LAMBDA t : t.status = "Pending")
           ELSE IF filter_by = "Completed"
                THEN SelectSeq(tasks, LAMBDA t : t.status = "Completed")
           ELSE tasks,
           None, tasks, None, FALSE)

\* filter_tasks
imp_filter_tasks(tasks, filter_by) ==
    Effect(IF filter_by = "Pending" THEN SelectSeq(tasks, LAMBDA t : t.status = "Pending")
           ELSE IF filter_by = "Completed"
                THEN SelectSeq(tasks, LAMBDA t : t.status = "Completed")
           ELSE IF filter_by = "Overdue"
                THEN SelectSeq(tasks, LAMBDA t : t.status = "Overdue")
           ELSE tasks,
           None, tasks, None, FALSE)

\* the comparison written >= instead of >
imp_swap_needed_ge(sort_by, a, b) == ~KeyGT(sort_by, b, a)

\* key(iterable[j]) > key(iterable[j + 1])
imp_swap_needed(sort_by, a, b) == KeyGT(sort_by, a, b)

\* my_sorted: for i in range(len): for j in range(len - i - 1): swap if >
\* (i, j are the 0-based loop counters; positions are 1-based here)
RECURSIVE imp_inner(_, _, _, _)
imp_inner(arr, sort_by, i, j) ==
    IF j >= Len(arr) - i - 1 THEN arr
    ELSE IF imp_swap_needed(sort_by, arr[j + 1], arr[j + 2])
         THEN imp_inner(Swap(arr, j + 1), sort_by, i, j + 1)
         ELSE imp_inner(arr, sort_by, i, j + 1)

RECURSIVE imp_outer(_, _, _)
imp_outer(arr, sort_by, i) ==
    IF i >= Len(arr) THEN arr
    ELSE imp_outer(imp_inner(arr, sort_by, i, 0), sort_by, i + 1)

\* my_sorted(iterable, key): sorts iterable itself and returns it
imp_my_sorted(iterable, sort_by) == imp_outer(iterable, sort_by, 0)

\* sort_tasks: the list given is sorted in place and returned; another key
\* returns it as it is
imp_sort_tasks(tasks, sort_by) ==
    LET t2 == IF sort_by = "Priority" THEN imp_my_sorted(tasks, "Priority")
              ELSE IF sort_by = "Due Date" THEN imp_my_sorted(tasks, "Due Date")
              ELSE tasks
    IN  Effect(t2, None, t2, None, FALSE)

(* ======================= functional variant =========================== *)

\* keyword arguments of custom_replace: each key is optional
Kw(id, d, dd, p, s) ==
    [task_id |-> id, description |-> d, due_date |-> dd, priority |-> p, status |-> s]

\* custom_replace(obj, **kwargs): kwargs.get(key, getattr(obj, key)) per field
custom_replace(obj, kw) ==
    Task(IF kw.task_id = None THEN obj.task_id ELSE kw.task_id[1],
         IF kw.description = None THEN obj.description ELSE kw.description[1],
         IF kw.due_date = None THEN obj.due_date ELSE kw.due_date[1],
         IF kw.priority = None THEN obj.priority ELSE kw.priority[1],
         IF kw.status = None THEN obj.status ELSE kw.status[1])

\* create_task_from_dict(task_dicts, tasks): tasks + [task], then the rest
RECURSIVE create_task_from_dict(_, _)
create_task_from_dict(task_dicts, tasks) ==
    IF task_dicts = <<>> THEN Finished(tasks)
    ELSE IF MissingKey(task_dicts[1]) THEN Threw("KeyError", tasks)
    ELSE create_task_from_dict(Tail(task_dicts),
                               tasks \o <<task_from_dict(task_dicts[1])>>)

\* the try block of TaskManager.load_tasks
fun_load_try(f) ==
    IF f.kind = "absent" THEN Finished(<<>>)
    ELSE IF f.kind = "invalid" THEN Threw("JSONDecodeError", <<>>)
    ELSE create_task_from_dict(f.recs, <<>>)

\* the except clause of TaskManager.load_tasks: return []
fun_load_except(r) ==
    IF r.exc = "none" THEN Returned(r.val)
    ELSE IF r.exc \in CaughtOnLoad THEN Returned(<<>>)
    ELSE Raised

\* TaskManager.load_tasks()
fun_load_tasks(f) == fun_load_except(fun_load_try(f))

\* build_task_dicts(tasks, task_dicts)
RECURSIVE build_task_dicts(_, _)
build_task_dicts(tasks, task_dicts) ==
    IF tasks = <<>> THEN task_dicts
    ELSE build_task_dicts(Tail(tasks), task_dicts \o <<task_dict(tasks[1])>>)

\* TaskManager.save_tasks(tasks): the file content written
fun_save_tasks(tasks) == JsonFile(build_task_dicts(tasks, <<>>))

\* TaskManager.validate_task(priority, due_date)[0]
fun_validate_task(priority, due_date, clock) ==
    IF priority < MinPriority \/ priority > MaxPriority THEN FALSE
    ELSE IF DtLE(due_date, clock) THEN FALSE
    ELSE TRUE

\* TaskManager.renumber_tasks(tasks, replace_function, index): in place
RECURSIVE fun_renumber_tasks(_, _)
fun_renumber_tasks(tasks, index) ==
    IF index = Len(tasks) THEN tasks
    ELSE fun_renumber_tasks(
             [tasks EXCEPT ![index + 1] =
                 custom_replace(tasks[index + 1],
                                Kw(Some(TId(index + 1)), None, None, None, None))],
             index + 1)

\* TaskManager.add_task: appends to the list it is given; it does not
\* validate and does not save
fun_add_task(tasks, description, due_date, priority) ==
    LET new_task == Task(TId(Len(tasks) + 1), description, due_date, priority, "Pending")
        t2 == Append(tasks, new_task)
    IN  Effect(t2, Some(new_task), t2, None, FALSE)

\* updates.get(field, current) for the four fields, then replace_function
fun_apply_updates(current_task, updates) ==
    custom_replace(current_task,
        Kw(None,
           Some(IF updates.description = None THEN current_task.description
                ELSE updates.description[1]),
           Some(IF updates.due_date = None THEN current_task.due_date
                ELSE updates.due_date[1]),
           Some(IF updates.priority = None THEN current_task.priority
                ELSE updates.priority[1]),
           Some(IF updates.status = None THEN current_task.status
                ELSE updates.status[1])))

\* update_recursively(tasks, task_id, updates)
RECURSIVE update_recursively(_, _, _)
update_recursively(tasks, task_id, updates) ==
    IF tasks = <<>> THEN [out |-> tasks, ret |-> None]
    ELSE IF tasks[1].task_id = task_id
         THEN LET updated_task == fun_apply_updates(tasks[1], updates)
              IN  [out |-> [tasks EXCEPT ![1] = updated_task], ret |-> Some(updated_task)]
         ELSE LET r == update_recursively(Tail(tasks), task_id, updates)
              IN  [out |-> <<tasks[1]>> \o r.out, ret |-> r.ret]

\* TaskManager.update_task: it does not save.  The list given is changed
\* (tasks[0] = updated_task) only when its first task matches; a match further
\* on is replaced in a copy.
fun_update_task(tasks, task_id, updates) ==
    LET r == update_recursively(tasks, task_id, updates)
    IN  Effect(r.out, r.ret,
               IF tasks # <<>> /\ tasks[1].task_id = task_id THEN r.out ELSE tasks,
               None, FALSE)

\* delete_recursively(tasks, task_id, result): result.append on no match
RECURSIVE delete_recursively(_, _, _)
delete_recursively(tasks, task_id, result) ==
    IF tasks = <<>> THEN result
    ELSE delete_recursively(Tail(tasks), task_id,
             IF tasks[1].task_id # task_id THEN Append(result, tasks[1]) ELSE result)

\* TaskManager.delete_task: the def of delete_recursively runs at every call,
\* so its result=[] default is a new empty list each time.  No renumbering,
\* no save.
fun_delete_task(tasks, task_id) ==
    Effect(delete_recursively(tasks, task_id, <<>>), None, tasks, None, FALSE)

\* filter_recursively(tasks, filter_by, filtered_tasks): match filter_by
RECURSIVE filter_recursively(_, _, _)
filter_recursively(tasks, filter_by, filtered_tasks) ==
    IF tasks = <<>> THEN filtered_tasks
    ELSE filter_recursively(Tail(tasks), filter_by,
             IF filter_by \in {"Pending", "Completed", "Overdue"}
             THEN IF tasks[1].status = filter_by
                  THEN Append(filtered_tasks, tasks[1]) ELSE filtered_tasks
             ELSE Append(filtered_tasks, tasks[1]))

\* filter_tasks that also saves what it selected
fun_filter_tasks_saving(tasks, filter_by) ==
    Effect(filter_recursively(tasks, filter_by, <<>>), None, tasks,
           Some(fun_save_tasks(filter_recursively(tasks, filter_by, <<>>))), FALSE)

\* TaskManager.filter_tasks: the def of filter_recursively runs at every
\* call, so its filtered_tasks=[] default is a new empty list each time
fun_filter_tasks(tasks, filter_by) ==
    Effect(filter_recursively(tasks, filter_by, <<>>), None, tasks, None, FALSE)

\* bubble_sort(arr, n, i).  arr[i] with i at or past the end raises
\* IndexError.
IndexError == Raised

\* key(arr[i]) > key(arr[i + 1])
fun_swap_needed(sort_by, a, b) == KeyGT(sort_by, a, b)

RECURSIVE bubble_sort(_, _, _, _)
bubble_sort(arr, sort_by, n, i) ==
    IF n = 1 THEN Returned(arr)
    ELSE IF i = n - 1 THEN bubble_sort(arr, sort_by, n - 1, 0)
    ELSE IF i >= Len(arr) \/ i + 1 >= Len(arr) THEN IndexError
    ELSE IF fun_swap_needed(sort_by, arr[i + 1], arr[i + 2])
         THEN bubble_sort(Swap(arr, i + 1), sort_by, n, i + 1)
         ELSE bubble_sort(arr, sort_by, n, i + 1)

\* my_sorted(iterable, key): bubble_sort(iterable[:], len(iterable))
fun_my_sorted(iterable, sort_by) == bubble_sort(iterable, sort_by, Len(iterable), 0)

\* TaskManager.sort_tasks(tasks, sort_function, sort_by): a sorted copy, or
\* the list itself for another key
fun_sort_tasks(tasks, sort_by) ==
    LET r == IF sort_by = "Priority" THEN fun_my_sorted(tasks, "Priority")
             ELSE IF sort_by = "Due Date" THEN fun_my_sorted(tasks, "Due Date")
             ELSE Returned(tasks)
    IN  Effect(r.val, None, tasks, None, r.raised)

\* the functional add path as add_task_handler runs it: validate_task, then
\* add_task, save_tasks and renumber_tasks
fun_add_path(tasks, description, due_date, priority, clock) ==
    IF fun_validate_task(priority, due_date, clock)
    THEN LET e == fun_add_task(tasks, description, due_date, priority)
             renumbered == fun_renumber_tasks(e.out, 0)
         IN  Effect(renumbered, e.ret, renumbered, Some(fun_save_tasks(e.out)), FALSE)
    ELSE Effect(tasks, None, tasks, None, FALSE)

(* ============================ state =================================== *)
VARIABLES
    variant,   \* which program runs: "imp" or "fun"
    mode,      \* "gui": the handlers act; "core": a caller of the operations;
               \* "store": a caller of load_tasks and save_tasks
    tasks,     \* self.tasks / the list the caller holds
    file,      \* the JSON file
    now,       \* datetime.now(), in seconds
    windows,   \* task_id captured by each open update window
    call,      \* the last operation: its arguments and what it did
    prev,      \* the operation before it, when that was a filter_tasks or a
               \* save_tasks call
    calls      \* number of operations done

vars == <<variant, mode, tasks, file, now, windows, call, prev, calls>>

\* the fields of an update dialog that were filled in
UpdateInputs ==
    { [NoUpdates EXCEPT !.priority = Some(MinPriority - 1)],
      [NoUpdates EXCEPT !.priority = Some(MaxPriority)],
      [NoUpdates EXCEPT !.status = Some("Completed")],
      [NoUpdates EXCEPT !.status = Some("Overdue")],
      [NoUpdates EXCEPT !.description = Some("b")],
      [NoUpdates EXCEPT !.due_date = Some(DateTime(1, 0))],
      [NoUpdates EXCEPT !.priority = Some(MaxPriority), !.status = Some("Completed")] }

NoCall ==
    [op |-> "none", crit |-> "", tid |-> TId(0), upd |-> NoUpdates,
     description |-> "", due_date |-> DateTime(0, 0), priority |-> 0,
     inp |-> <<>>, inpAfter |-> <<>>, out |-> <<>>, ret |-> None,
     wrote |-> FALSE, raised |-> FALSE, fileBefore |-> AbsentFile]

Clock == DateTime(now, 0)

RemoveAt(seq, i) == SubSeq(seq, 1, i - 1) \o SubSeq(seq, i + 1, Len(seq))

\* one more handler has run
GuiStep ==
    /\ mode = "gui"
    /\ calls < MaxSteps
    /\ calls' = calls + 1
    /\ UNCHANGED <<variant, mode, prev>>

(* ============================== GUI =================================== *)

\* TaskPlannerGUI.__init__ of either variant: the program is started again on
\* the file it left
Main ==
    /\ GuiStep
    /\ tasks' = IF variant = "imp" THEN imp_load_tasks(file).val ELSE fun_load_tasks(file).val
    /\ windows' = <<>>
    /\ call' = [NoCall EXCEPT !.op = "main"]
    /\ UNCHANGED <<file, now>>

\* the clock advances
Tick ==
    /\ now < MaxNow
    /\ now' = now + 1
    /\ UNCHANGED <<variant, mode, tasks, file, windows, call, prev, calls>>

imp_apply_sort(sort_by) ==
    /\ GuiStep /\ variant = "imp"
    /\ tasks' = IF sort_by = "All" THEN imp_load_tasks(file).val
                ELSE imp_sort_tasks(tasks, sort_by).out
    /\ call' = [NoCall EXCEPT !.op = "sort", !.crit = sort_by]
    /\ UNCHANGED <<file, now, windows>>

imp_apply_filter(filter_by) ==
    /\ GuiStep /\ variant = "imp"
    /\ tasks' = IF filter_by = "All" THEN imp_load_tasks(file).val
                ELSE imp_filter_tasks(imp_load_tasks(file).val, filter_by).out
    /\ call' = [NoCall EXCEPT !.op = "filter", !.crit = filter_by]
    /\ UNCHANGED <<file, now, windows>>

\* add_task_handler, entries already parsed (a ValueError shows a message and
\* changes nothing); after a successful add_task the list is loaded again
imp_add_task_handler(description, due_date, priority) ==
    /\ GuiStep /\ variant = "imp"
    /\ Len(tasks) < MaxLen
    /\ LET e == imp_add_task(tasks, description, due_date, priority, Clock)
       IN  IF e.ret # None
           THEN /\ file' = e.store[1]
                /\ tasks' = imp_load_tasks(e.store[1]).val
                /\ call' = [NoCall EXCEPT !.op = "add", !.ret = e.ret]
           ELSE /\ UNCHANGED <<file, tasks>>
                /\ call' = [NoCall EXCEPT !.op = "add_rejected"]
    /\ UNCHANGED <<now, windows>>

\* delete_task_handler with the list row sel selected (no selection: no effect)
imp_delete_task_handler(sel) ==
    /\ GuiStep /\ variant = "imp"
    /\ sel \in 1..Len(tasks)
    /\ LET task_id == tasks[sel].task_id
           e == imp_delete_task(tasks, task_id)
       IN  /\ tasks' = e.out
           /\ file' = e.store[1]
           /\ call' = [NoCall EXCEPT !.op = "delete", !.tid = task_id,
                                     !.inp = tasks, !.out = e.out]
    /\ UNCHANGED <<now, windows>>

\* update_task_handler of either variant: opens the update window for the
\* selected row; the window keeps that row's task_id until it is submitted
update_task_handler(sel) ==
    /\ GuiStep
    /\ sel \in 1..Len(tasks)
    /\ Len(windows) < MaxWindows
    /\ windows' = Append(windows, tasks[sel].task_id)
    /\ UNCHANGED <<tasks, file, now, call>>

\* submit_update of window w with the filled-in fields (an unparsable field or
\* no field at all shows a message and changes nothing)
imp_submit_update(w, updates) ==
    /\ GuiStep /\ variant = "imp"
    /\ w \in 1..Len(windows)
    /\ LET e == imp_update_task(tasks, windows[w], updates)
       IN  /\ tasks' = e.out
           /\ file' = IF e.store # None THEN e.store[1] ELSE file
           /\ call' = [NoCall EXCEPT !.op = IF e.ret # None THEN "update" ELSE "update_missed",
                                     !.tid = windows[w], !.upd = updates]
    /\ windows' = RemoveAt(windows, w)
    /\ UNCHANGED now

\* apply_sort: an IndexError leaves the handler before self.tasks is assigned
fun_apply_sort(sort_by) ==
    /\ GuiStep /\ variant = "fun"
    /\ IF sort_by = "All"
       THEN /\ tasks' = fun_load_tasks(file).val
            /\ call' = [NoCall EXCEPT !.op = "sort", !.crit = sort_by]
       ELSE LET e == fun_sort_tasks(tasks, sort_by)
            IN  /\ tasks' = IF e.raised THEN tasks ELSE e.out
                /\ call' = [NoCall EXCEPT !.op = "sort", !.crit = sort_by,
                                          !.raised = e.raised]
    /\ UNCHANGED <<file, now, windows>>

fun_apply_filter(filter_by) ==
    /\ GuiStep /\ variant = "fun"
    /\ tasks' = IF filter_by = "All" THEN fun_load_tasks(file).val
                ELSE fun_filter_tasks(fun_load_tasks(file).val, filter_by).out
    /\ call' = [NoCall EXCEPT !.op = "filter", !.crit = filter_by]
    /\ UNCHANGED <<file, now, windows>>

\* add_task_handler, entries already parsed (a ValueError shows a message and
\* changes nothing)
fun_add_task_handler(description, due_date, priority) ==
    /\ GuiStep /\ variant = "fun"
    /\ Len(tasks) < MaxLen
    /\ LET e == fun_add_path(tasks, description, due_date, priority, Clock)
       IN  IF e.ret # None
           THEN /\ file' = e.store[1]
                /\ tasks' = e.out
                /\ call' = [NoCall EXCEPT !.op = "add", !.ret = e.ret]
           ELSE /\ UNCHANGED <<file, tasks>>
                /\ call' = [NoCall EXCEPT !.op = "add_rejected"]
    /\ UNCHANGED <<now, windows>>

\* delete_task_handler: delete_task, save_tasks, renumber_tasks
fun_delete_task_handler(sel) ==
    /\ GuiStep /\ variant = "fun"
    /\ sel \in 1..Len(tasks)
    /\ LET task_id == tasks[sel].task_id
           e == fun_delete_task(tasks, task_id)
       IN  /\ file' = fun_save_tasks(e.out)
           /\ tasks' = fun_renumber_tasks(e.out, 0)
           /\ call' = [NoCall EXCEPT !.op = "delete", !.tid = task_id,
                                     !.inp = tasks, !.out = e.out]
    /\ UNCHANGED <<now, windows>>

\* submit_update: update_task, save_tasks, the window is destroyed
fun_submit_update(w, updates) ==
    /\ GuiStep /\ variant = "fun"
    /\ w \in 1..Len(windows)
    /\ LET e == fun_update_task(tasks, windows[w], updates)
       IN  /\ tasks' = e.out
           /\ file' = fun_save_tasks(e.out)
           /\ call' = [NoCall EXCEPT !.op = IF e.ret # None THEN "update" ELSE "update_missed",
                                     !.tid = windows[w], !.upd = updates]
    /\ windows' = RemoveAt(windows, w)
    /\ UNCHANGED now

Init ==
    /\ variant \in Variants
    /\ mode = "gui"
    /\ tasks = <<>>
    /\ file = AbsentFile
    /\ now = 1
    /\ windows = <<>>
    /\ call = [NoCall EXCEPT !.op = "main"]
    /\ prev = NoCall
    /\ calls = 0

Next ==
    \/ Main
    \/ Tick
    \/ \E k \in SortOptions : imp_apply_sort(k)
    \/ \E c \in FilterOptions : imp_apply_filter(c)
    \/ \E d \in GuiDescriptions, dd \in GuiDateInputs, p \in GuiPriorityInputs :
           imp_add_task_handler(d, dd, p)
    \/ \E sel \in 1..MaxLen : imp_delete_task_handler(sel)
    \/ \E sel \in 1..MaxLen : update_task_handler(sel)
    \/ \E w \in 1..MaxWindows, u \in UpdateInputs : imp_submit_update(w, u)
    \/ \E k \in SortOptions : fun_apply_sort(k)
    \/ \E c \in FilterOptions : fun_apply_filter(c)
    \/ \E d \in GuiDescriptions, dd \in GuiDateInputs, p \in GuiPriorityInputs :
           fun_add_task_handler(d, dd, p)
    \/ \E sel \in 1..MaxLen : fun_delete_task_handler(sel)
    \/ \E w \in 1..MaxWindows, u \in UpdateInputs : fun_submit_update(w, u)

Spec == Init /\ [][Next]_vars

(* ================== a caller of the task operations =================== *)
\* The caller holds one list (tasks), passes it to an operation and goes on
\* with the list add, update and delete return; what filter and sort return
\* is only looked at.  call records the arguments, the list before the call
\* (inp), the same list object after it (inpAfter) and the returned value.

\* task lists the caller starts with: tasks of PoolTasks, ids T1..Tn
PoolTasks ==
    { Task(TId(0), "a", DateTime(2, 0), MinPriority, "Pending"),
      Task(TId(0), "b", DateTime(1, 0), MaxPriority, "Completed"),
      Task(TId(0), "a", DateTime(1, 0), MinPriority, "Completed"),
      Task(TId(0), "b", DateTime(2, 0), MaxPriority, "Overdue") }

InputLists ==
    UNION { { [i \in 1..n |-> [l[i] EXCEPT !.task_id = TId(i)]] : l \in [1..n -> PoolTasks] } :
            n \in 0..MaxLen }

\* ids a caller asks for
IdInputs == { TId(n) : n \in 1..(MaxLen + 1) }

\* the record of a call with effect e; the caller keeps the list kept
Called(op, e, kept) ==
    /\ mode = "core"
    /\ calls < MaxCalls
    /\ calls' = calls + 1
    /\ prev' = IF call.op = "filter" THEN call ELSE NoCall
    /\ tasks' = kept
    /\ file' = IF e.store # None THEN e.store[1] ELSE file
    /\ call' = [op EXCEPT !.inp = tasks, !.inpAfter = e.inpAfter, !.out = e.out,
                          !.ret = e.ret, !.wrote = (e.store # None),
                          !.raised = e.raised, !.fileBefore = file]
    /\ UNCHANGED <<variant, mode, now, windows>>

core_add_task(description, due_date, priority) ==
    /\ Len(tasks) < MaxLen
    /\ LET e == IF variant = "imp"
                THEN imp_add_task(tasks, description, due_date, priority, Clock)
                ELSE fun_add_task(tasks, description, due_date, priority)
       IN  Called([NoCall EXCEPT !.op = "add", !.description = description,
                                 !.due_date = due_date, !.priority = priority],
                  e, e.out)

core_fun_add_path(description, due_date, priority) ==
    /\ variant = "fun"
    /\ Len(tasks) < MaxLen
    /\ LET e == fun_add_path(tasks, description, due_date, priority, Clock)
       IN  Called([NoCall EXCEPT !.op = "add_path", !.description = description,
                                 !.due_date = due_date, !.priority = priority],
                  e, e.out)

core_update_task(task_id, updates) ==
    /\ mode = "core"
    /\ LET e == IF variant = "imp" THEN imp_update_task(tasks, task_id, updates)
                ELSE fun_update_task(tasks, task_id, updates)
       IN  Called([NoCall EXCEPT !.op = "update", !.tid = task_id, !.upd = updates],
                  e, e.out)

core_delete_task(task_id) ==
    /\ mode = "core"
    /\ LET e == IF variant = "imp" THEN imp_delete_task(tasks, task_id)
                ELSE fun_delete_task(tasks, task_id)
       IN  Called([NoCall EXCEPT !.op = "delete", !.tid = task_id], e, e.out)

core_filter_tasks(filter_by) ==
    /\ mode = "core"
    /\ LET e == IF variant = "imp" THEN imp_filter_tasks(tasks, filter_by)
                ELSE fun_filter_tasks(tasks, filter_by)
       IN  Called([NoCall EXCEPT !.op = "filter", !.crit = filter_by], e, e.inpAfter)

core_sort_tasks(sort_by) ==
    /\ mode = "core"
    /\ LET e == IF variant = "imp" THEN imp_sort_tasks(tasks, sort_by)
                ELSE fun_sort_tasks(tasks, sort_by)
       IN  Called([NoCall EXCEPT !.op = "sort", !.crit = sort_by], e, e.inpAfter)

InitCore ==
    /\ variant \in Variants
    /\ mode = "core"
    /\ tasks \in InputLists
    /\ file = AbsentFile
    /\ now = MaxNow
    /\ windows = <<>>
    /\ call = NoCall
    /\ prev = NoCall
    /\ calls = 0

NextCore ==
    \/ \E d \in CoreDescriptions, dd \in DateInputs, p \in PriorityInputs :
           core_add_task(d, dd, p)
    \/ \E d \in CoreDescriptions, dd \in DateInputs, p \in PriorityInputs :
           core_fun_add_path(d, dd, p)
    \/ \E id \in IdInputs, u \in UpdateInputs : core_update_task(id, u)
    \/ \E id \in IdInputs : core_delete_task(id)
    \/ \E c \in FilterOptions : core_filter_tasks(c)
    \/ \E k \in SortOptions : core_sort_tasks(k)

SpecCore == InitCore /\ [][NextCore]_vars

(* ==================== a caller of the JSON store ====================== *)
\* The caller finds a file in any condition, and calls load_tasks and
\* save_tasks in any order; it holds the list it last saved or loaded.

\* tasks the caller saves; the last has a due_date with microseconds
StorePool ==
    { Task(TId(0), "a", DateTime(2, 0), MinPriority, "Pending"),
      Task(TId(0), "b", DateTime(1, 0), MaxPriority, "Completed"),
      Task(TId(0), "b", DateTime(2, 1), MaxPriority, "Overdue") }

StoreLists ==
    UNION { { [i \in 1..n |-> [l[i] EXCEPT !.task_id = TId(i)]] : l \in [1..n -> StorePool] } :
            n \in 0..MaxLen }

\* the dict d without the key k
Without(d, k) == [f \in (DOMAIN d) \ {k} |-> d[f]]

\* dicts found in the file: a complete one, and the same with one key missing
StoreDicts ==
    LET d == task_dict(Task(TId(1), "a", DateTime(2, 0), MinPriority, "Pending"))
    IN  {d} \cup { Without(d, k) : k \in RequiredFields }

\* file contents the caller may find
StoreInputs ==
    {AbsentFile, InvalidFile}
    \cup UNION { { JsonFile(recs) : recs \in [1..n -> StoreDicts] } : n \in 0..MaxLen }

StoreStep ==
    /\ mode = "store"
    /\ calls < MaxStoreCalls
    /\ calls' = calls + 1
    /\ prev' = IF call.op = "save" THEN call ELSE NoCall
    /\ UNCHANGED <<variant, mode, now, windows>>

\* save_tasks(l) of the variant
store_save_tasks(l) ==
    /\ StoreStep
    /\ tasks' = l
    /\ file' = IF variant = "imp" THEN imp_save_tasks(l) ELSE fun_save_tasks(l)
    /\ call' = [NoCall EXCEPT !.op = "save", !.inp = l, !.wrote = TRUE]

\* load_tasks() of the variant
store_load_tasks ==
    /\ StoreStep
    /\ LET r == IF variant = "imp" THEN imp_load_tasks(file) ELSE fun_load_tasks(file)
       IN  /\ tasks' = IF r.raised THEN tasks ELSE r.val
           /\ call' = [NoCall EXCEPT !.op = "load", !.out = r.val, !.raised = r.raised,
                                     !.fileBefore = file]
    /\ UNCHANGED file

InitStore ==
    /\ variant \in Variants
    /\ mode = "store"
    /\ tasks = <<>>
    /\ file \in StoreInputs
    /\ now = MaxNow
    /\ windows = <<>>
    /\ call = NoCall
    /\ prev = NoCall
    /\ calls = 0

NextStore ==
    \/ \E l \in StoreLists : store_save_tasks(l)
    \/ store_load_tasks

SpecStore == InitStore /\ [][NextStore]_vars

(* ============================ properties ============================== *)
Renumbered(l) == \A i \in 1..Len(l) : l[i].task_id = TId(i)

\* a task without its id
Body(t) == [description |-> t.description, due_date |-> t.due_date,
            priority |-> t.priority, status |-> t.status]
Bodies(l) == [i \in 1..Len(l) |-> Body(l[i])]

Count(l, t) == Cardinality({i \in 1..Len(l) : l[i] = t})
Range(l) == {l[i] : i \in 1..Len(l)}
IsPermutation(a, b) ==
    /\ Len(a) = Len(b)
    /\ \A t \in Range(a) \cup Range(b) : Count(a, t) = Count(b, t)

HasId(l, id) == \E i \in 1..Len(l) : l[i].task_id = id
FirstWithId(l, id) ==
    CHOOSE i \in 1..Len(l) :
        l[i].task_id = id /\ \A j \in 1..(i - 1) : l[j].task_id # id

DictsOf(l) == [i \in 1..Len(l) |-> task_dict(l[i])]

\* C1: after an add or a delete done through the handlers, of either variant,
\* the task at every position i (0-based) of the in-memory list has the id
\* "T" + (i+1).
C1_RenumberingInvariant ==
    (mode = "gui" /\ call.op \in {"add", "delete"}) => Renumbered(tasks)

\* C1 witness: the first row of a longer list was deleted, so every task left
\* had to get a new id
C1_Witness ==
    /\ mode = "gui" /\ call.op = "delete" /\ call.tid = TId(1)
    /\ Len(tasks) >= 2 /\ Renumbered(tasks)

\* C2: after every add, update and delete the JSON file holds the in-memory
\* list, task for task and field for field, ids included.
C2_SnapshotInvariant ==
    (mode = "gui" /\ call.op \in {"add", "update", "delete"}) =>
        file = JsonFile(DictsOf(tasks))

\* the add arguments validation is meant to reject
InvalidAdd ==
    \/ call.priority < MinPriority
    \/ call.priority > MaxPriority
    \/ DtLE(call.due_date, Clock)

NothingDone ==
    /\ call.out = call.inp
    /\ call.inpAfter = call.inp
    /\ call.ret = None
    /\ ~call.wrote
    /\ file = call.fileBefore

\* C3 as stated: add_task of the imperative variant and TaskManager.add_task
\* of the functional variant, given a priority outside [1,10] or a due_date
\* not after the current time, return the list unchanged and None and do not
\* write the store.
C3_AsStated ==
    (mode = "core" /\ call.op = "add" /\ InvalidAdd) => NothingDone

\* C3 amended: this holds of the imperative add_task and of the functional
\* add path as add_task_handler runs it (validate_task, and
\* TaskManager.add_task only when it accepts).
C3_ValidationGate ==
    (/\ mode = "core"
     /\ \/ (call.op = "add" /\ variant = "imp")
        \/ call.op = "add_path"
     /\ InvalidAdd) => NothingDone

\* C3 witness: an add with priority 11 and a future date on a list that has
\* tasks was refused
C3_Witness ==
    /\ mode = "core" /\ call.op = "add" /\ variant = "imp"
    /\ call.priority = MaxPriority + 1 /\ DtGT(call.due_date, Clock)
    /\ call.inp # <<>> /\ NothingDone

\* the list without the first task that has the id
RemoveFirst(l, id) == IF HasId(l, id) THEN RemoveAt(l, FirstWithId(l, id)) ELSE l

\* C4: delete returns the tasks of its input with the first task of the given
\* id removed and the others in their order (the input's tasks when no id
\* matches); the result is never longer than the input and holds no task that
\* is not in the input.  Tasks are compared without their ids, which delete
\* may renumber.
C4_DeleteResult ==
    call.op = "delete" =>
        /\ Bodies(call.out) = Bodies(RemoveFirst(call.inp, call.tid))
        /\ Len(call.out) <= Len(call.inp)
        /\ \A i \in 1..Len(call.out) :
               \E j \in 1..Len(call.inp) : Body(call.out[i]) = Body(call.inp[j])

\* C5: update with an id the list has changes, in the first task with that
\* id, the fields named in the updates and nothing else; the other tasks, the
\* length and the order stay.
C5_PartialUpdate ==
    (mode = "core" /\ call.op = "update" /\ HasId(call.inp, call.tid)) =>
        LET i == FirstWithId(call.inp, call.tid)
            old == call.inp[i]
            new == call.out[i]
        IN  /\ Len(call.out) = Len(call.inp)
            /\ \A j \in 1..Len(call.inp) : j # i => call.out[j] = call.inp[j]
            /\ new.task_id = old.task_id
            /\ new.description = IF call.upd.description = None THEN old.description
                                 ELSE call.upd.description[1]
            /\ new.due_date = IF call.upd.due_date = None THEN old.due_date
                              ELSE call.upd.due_date[1]
            /\ new.priority = IF call.upd.priority = None THEN old.priority
                              ELSE call.upd.priority[1]
            /\ new.status = IF call.upd.status = None THEN old.status
                            ELSE call.upd.status[1]
            /\ call.ret = Some(new)

\* C5 witness: only the priority of the second task, a Completed one, was set
C5_Witness ==
    /\ mode = "core" /\ call.op = "update" /\ call.tid = TId(2)
    /\ Len(call.inp) >= 3
    /\ call.upd = [NoUpdates EXCEPT !.priority = Some(MaxPriority)]
    /\ call.inp[2].status = "Completed" /\ call.inp[2].priority = MinPriority
    /\ call.out[2].status = "Completed" /\ call.out[2].priority = MaxPriority

\* C6: filter with Pending, Completed or Overdue returns the tasks of the
\* input with that status, in input order, and nothing else; with another
\* criterion it returns the input.
C6_FilterResult ==
    (mode = "core" /\ call.op = "filter") =>
        call.out = IF call.crit \in Statuses
                   THEN SelectSeq(call.inp, LAMBDA t : t.status = call.crit)
                   ELSE call.inp

\* C6 witness: a second filter call in a row picked the Overdue task out of a
\* list that also has tasks of other statuses
C6_Witness ==
    /\ mode = "core" /\ call.op = "filter" /\ call.crit = "Overdue"
    /\ prev.op = "filter"
    /\ Len(call.inp) = 3 /\ Len(call.out) = 1
    /\ call.out[1].status = "Overdue"

SortKeys == {"Priority", "Due Date"}
SortedBy(l, sort_by) == \A i \in 1..(Len(l) - 1) : ~KeyGT(sort_by, l[i], l[i + 1])

\* C8: sort by Priority or by Due Date raises nothing, for the empty list and
\* one-element lists too, and returns a permutation of the input in
\* non-decreasing key order; another key returns the input.
C8_SortResult ==
    (mode = "core" /\ call.op = "sort") =>
        /\ ~call.raised
        /\ call.crit \in SortKeys =>
               IsPermutation(call.out, call.inp) /\ SortedBy(call.out, call.crit)
        /\ call.crit \notin SortKeys => call.out = call.inp

KeyEq(sort_by, a, b) == ~KeyGT(sort_by, a, b) /\ ~KeyGT(sort_by, b, a)

\* C9: sort is stable in both variants: the tasks that share a key value come
\* out in the order they had in the input.
C9_SortStability ==
    (mode = "core" /\ call.op = "sort" /\ call.crit \in SortKeys /\ ~call.raised) =>
        \A i \in 1..Len(call.inp) :
            SelectSeq(call.out, LAMBDA t : KeyEq(call.crit, t, call.inp[i]))
                = SelectSeq(call.inp, LAMBDA t : KeyEq(call.crit, t, call.inp[i]))

\* C9 witness: two different tasks of equal priority stood before a task of
\* lower priority, so the sort moved tasks and kept the two in order
C9_Witness ==
    /\ mode = "core" /\ call.op = "sort" /\ call.crit = "Priority" /\ ~call.raised
    /\ Len(call.inp) = 3
    /\ call.inp[1].priority = call.inp[2].priority
    /\ Body(call.inp[1]) # Body(call.inp[2])
    /\ call.inp[3].priority < call.inp[1].priority
    /\ call.out = <<call.inp[3], call.inp[1], call.inp[2]>>

\* C10: sort leaves its input list with the same tasks in the same order, for
\* every key, and does not write the store.
C10_SortReadOnly ==
    (mode = "core" /\ call.op = "sort") =>
        /\ call.inpAfter = call.inp
        /\ ~call.wrote
        /\ file = call.fileBefore

\* the updates validation is meant to reject
InvalidUpdate(u) ==
    \/ u.priority # None /\ (u.priority[1] < MinPriority \/ u.priority[1] > MaxPriority)
    \/ u.due_date # None /\ DtLE(u.due_date[1], Clock)

PriorityInRange(p) == MinPriority <= p /\ p <= MaxPriority

\* C11: an update that sets a priority outside [1,10] or a due_date not after
\* the current time changes neither the in-memory list nor the store, and
\* after every handler every task of the list and every record of the file
\* has its priority in [1,10].
C11_UpdateValidation ==
    [][mode = "gui" =>
          /\ (call'.op = "update" /\ calls' # calls /\ InvalidUpdate(call'.upd)) =>
                 (tasks' = tasks /\ file' = file)
          /\ \A i \in 1..Len(tasks') : PriorityInRange(tasks'[i].priority)
          /\ \A i \in 1..Len(file'.recs) : PriorityInRange(file'.recs[i].priority)]_vars

\* C12: add with a priority in [1,10] and a due_date after the current time
\* returns the input list with one task appended at the end: the given
\* description, due_date and priority, status Pending, id "T" + (length of the
\* input + 1); the tasks already there keep their positions and fields; the
\* created task is returned.
C12_AddSuccess ==
    (mode = "core" /\ call.op \in {"add", "add_path"} /\ ~InvalidAdd) =>
        LET n == Len(call.inp)
        IN  /\ Len(call.out) = n + 1
            /\ call.out[n + 1] = Task(TId(n + 1), call.description, call.due_date,
                                      call.priority, "Pending")
            /\ \A i \in 1..n : Body(call.out[i]) = Body(call.inp[i])
            /\ call.ret = Some(call.out[n + 1])

\* C12 witness: a valid add to a list of two tasks, the first of them
\* Completed, gave the third task
C12_Witness ==
    /\ mode = "core" /\ call.op = "add" /\ ~InvalidAdd
    /\ Len(call.inp) = 2 /\ call.inp[1].status = "Completed"
    /\ Len(call.out) = 3 /\ call.out[3].task_id = TId(3)
    /\ call.out[3].status = "Pending" /\ call.ret = Some(call.out[3])

\* a file load_tasks cannot read: absent, not JSON, or with a dict that lacks
\* a required key
Unreadable(f) ==
    \/ f.kind = "absent"
    \/ f.kind = "invalid"
    \/ \E i \in 1..Len(f.recs) : MissingKey(f.recs[i])

\* C13: load returns the empty list and raises nothing when the file is
\* absent, when it is not valid JSON and when a record at any position lacks
\* one of the five fields; the records before such a record are not returned.
C13_SilentRecovery ==
    (mode = "store" /\ call.op = "load" /\ Unreadable(call.fileBefore)) =>
        /\ ~call.raised
        /\ call.out = <<>>
        /\ tasks = <<>>

\* C13 witness: the file read has a complete first record and a second one
\* without its status; nothing was returned
C13_Witness ==
    /\ mode = "store" /\ call.op = "load"
    /\ call.fileBefore.kind = "json" /\ Len(call.fileBefore.recs) >= 2
    /\ ~MissingKey(call.fileBefore.recs[1])
    /\ "status" \notin DOMAIN call.fileBefore.recs[2]
    /\ call.out = <<>> /\ ~call.raised

NoSubSecond(l) == \A i \in 1..Len(l) : l[i].due_date.us = 0

\* C14: when a list whose due dates have no sub-second part is saved and the
\* file is then loaded, the list loaded has the same length and order and
\* every task has the same id, description, due_date, priority and status;
\* this holds of every save followed by a load, the first and the later ones.
C14_RoundTrip ==
    (mode = "store" /\ call.op = "load" /\ prev.op = "save" /\ NoSubSecond(prev.inp)) =>
        /\ ~call.raised
        /\ call.out = prev.inp
        /\ tasks = prev.inp

\* C14 witness: the fourth call is a load that follows the save of a list of
\* two different tasks, one of them Completed, and gave the list back
C14_Witness ==
    /\ mode = "store" /\ call.op = "load" /\ prev.op = "save" /\ calls = MaxStoreCalls
    /\ Len(prev.inp) >= 2 /\ NoSubSecond(prev.inp)
    /\ Body(prev.inp[1]) # Body(prev.inp[2])
    /\ prev.inp[2].status = "Completed"
    /\ call.out = prev.inp

\* the records of the file without their ids
DictBody(d) == [description |-> d.description, due_date |-> d.due_date,
                priority |-> d.priority, status |-> d.status]
FileBodies(f) == [i \in 1..Len(f.recs) |-> DictBody(f.recs[i])]

\* C15: no handler writes a filtered list to the store: the file loses a
\* record only through a delete, which removes one; after a filter, a sort
\* or an add every record the file had is still in it, and an update keeps
\* the number of records.
C15_NoTaskLost ==
    [][mode = "gui" =>
          LET before == FileBodies(file)
              after == FileBodies(file')
          IN  /\ Len(after) >= Len(before) - (IF call'.op = "delete" THEN 1 ELSE 0)
              /\ call'.op \notin {"delete", "update"} =>
                     \A b \in Range(before) : Count(after, b) >= Count(before, b)]_vars

====
